---- MODULE Spec2Model ----
(***************************************************************************)
(* A model of xml_json_yaml_validator.py: the interactive run of main /    *)
(* validate_and_fix_file and the pure functions it calls.                  *)
(*                                                                         *)
(* Text is a sequence of characters, each a one-character string; the one  *)
(* non-ASCII character of the alphabet, e-acute, is written "U00E9".       *)
(* The parsers of the json, yaml and xml.etree libraries are modelled on   *)
(* the fragment of each grammar that this alphabet can spell.              *)
(***************************************************************************)
EXTENDS Integers, Sequences, FiniteSets, TLC

\* ------------------------------------------------------------ characters

NonAscii == {"U00E9"}
Space == {" ", "\t", "\n", "\r"}
Digit == {"0", "1", "2", "3", "4", "5", "6", "7", "8", "9"}
Lower == {"a", "b", "c", "d", "e", "f", "h", "i", "j", "l", "m", "n", "o", "r",
          "s", "t", "u", "v", "x", "y"}
Upper == {"J", "M", "L", "S", "O", "N", "Y", "X", "U", "T", "F"}
\* \w of the re module
Word == Lower \cup Upper \cup Digit \cup {"_"}

At(s, i) ==
    IF i >= 1 /\ i <= Len(s) THEN s[i] ELSE ""

StartsWith(s, p) ==
    Len(s) >= Len(p) /\ SubSeq(s, 1, Len(p)) = p

StartsAt(s, i, p) ==
    i >= 1 /\ i + Len(p) - 1 <= Len(s) /\ SubSeq(s, i, i + Len(p) - 1) = p

EndsWith(s, p) ==
    Len(s) >= Len(p) /\ SubSeq(s, Len(s) - Len(p) + 1, Len(s)) = p

RECURSIVE Concat(_)
Concat(ss) ==
    IF ss = <<>> THEN <<>> ELSE Head(ss) \o Concat(Tail(ss))

RECURSIVE Join(_, _)
Join(ss, sep) ==
    IF ss = <<>> THEN <<>>
    ELSE IF Len(ss) = 1 THEN ss[1]
    ELSE ss[1] \o sep \o Join(Tail(ss), sep)

RECURSIVE SkipSpace(_, _)
SkipSpace(s, i) ==
    IF i <= Len(s) /\ s[i] \in Space THEN SkipSpace(s, i + 1) ELSE i

RECURSIVE SkipSpaceBack(_, _)
SkipSpaceBack(s, i) ==
    IF i >= 1 /\ s[i] \in Space THEN SkipSpaceBack(s, i - 1) ELSE i

\* str.strip()
Strip(s) ==
    SubSeq(s, SkipSpace(s, 1), SkipSpaceBack(s, Len(s)))

ToLower(c) ==
    CASE c = "J" -> "j" [] c = "M" -> "m" [] c = "L" -> "l" [] c = "S" -> "s"
      [] c = "O" -> "o" [] c = "N" -> "n" [] c = "Y" -> "y" [] c = "X" -> "x"
      [] c = "U" -> "u" [] c = "T" -> "t" [] c = "F" -> "f" [] OTHER -> c

\* str.lower()
LowerStr(s) ==
    [i \in 1..Len(s) |-> ToLower(s[i])]

IsAscii(c) ==
    c \notin NonAscii

\* lines 9-10
remove_unicode_symbols(text) ==
    SelectSeq(text, IsAscii)

\* ------------------------------------------------------------ json.loads

JNull == [k |-> "null", s |-> <<>>, items |-> <<>>]
JTrue == [k |-> "true", s |-> <<>>, items |-> <<>>]
JFalse == [k |-> "false", s |-> <<>>, items |-> <<>>]
JNum(ds) == [k |-> "num", s |-> ds, items |-> <<>>]
JStr(cs) == [k |-> "str", s |-> cs, items |-> <<>>]
JArr(vs) == [k |-> "list", s |-> <<>>, items |-> vs]
JMember(key, v) == [k |-> "member", s |-> key, items |-> <<v>>]
JObj(ms) == [k |-> "dict", s |-> <<>>, items |-> ms]

\* A JSONDecodeError (ok = FALSE: msg, and end the 1-based place of the error)
\* or a decoded value and the 1-based index after it.
DecodeError(msg, i) == [ok |-> FALSE, end |-> i, val |-> JNull, msg |-> msg]
Decoded(v, i) == [ok |-> TRUE, end |-> i, val |-> v, msg |-> ""]

HexE9 == <<"0", "0", "e", "9">>

\* The BACKSLASH table of json.decoder, on the alphabet's characters.
Unescape(c) ==
    CASE c = "\"" -> "\"" [] c = "\\" -> "\\" [] c = "/" -> "/"
      [] c = "n" -> "\n" [] c = "r" -> "\r" [] c = "t" -> "\t" [] OTHER -> ""

RECURSIVE scanstring(_, _, _, _)
scanstring(s, i, begin, acc) ==
    IF i > Len(s) THEN DecodeError("Unterminated string starting at", begin)
    ELSE IF s[i] = "\"" THEN Decoded(JStr(acc), i + 1)
    ELSE IF s[i] = "\\" THEN
        IF i + 1 > Len(s)
        THEN DecodeError("Unterminated string starting at", begin)
        ELSE IF s[i + 1] = "u" THEN
            IF StartsAt(s, i + 2, HexE9)
            THEN scanstring(s, i + 6, begin, Append(acc, "U00E9"))
            ELSE DecodeError("Invalid \\uXXXX escape", i)
        ELSE IF Unescape(s[i + 1]) = ""
            THEN DecodeError("Invalid \\escape", i)
            ELSE scanstring(s, i + 2, begin, Append(acc, Unescape(s[i + 1])))
    ELSE IF s[i] \in {"\n", "\r", "\t"}
        THEN DecodeError("Invalid control character at", i)
    ELSE scanstring(s, i + 1, begin, Append(acc, s[i]))

RECURSIVE DigitRun(_, _)
DigitRun(s, i) ==
    IF i <= Len(s) /\ s[i] \in Digit THEN DigitRun(s, i + 1) ELSE i

\* NUMBER_RE, integers: 0 | [1-9][0-9]*
ScanNumber(s, i) ==
    LET j == IF s[i] = "0" THEN i + 1 ELSE DigitRun(s, i)
    IN  Decoded(JNum(SubSeq(s, i, j - 1)), j)

\* dict(pairs): a repeated key keeps its first place and takes the last value.
PutPair(ms, key, v) ==
    IF \E n \in 1..Len(ms) : ms[n].s = key
    THEN [n \in 1..Len(ms) |-> IF ms[n].s = key THEN JMember(key, v) ELSE ms[n]]
    ELSE Append(ms, JMember(key, v))

RECURSIVE scan_once(_, _)
RECURSIVE ObjectLoop(_, _, _)
RECURSIVE ArrayLoop(_, _, _)

\* JSONObject's loop; i is the index after the opening quote of a key.
ObjectLoop(s, i, pairs) ==
    LET key == scanstring(s, i, i - 1, <<>>)
    IN  IF ~key.ok THEN key
        ELSE
        LET c == IF At(s, key.end) = ":" THEN key.end ELSE SkipSpace(s, key.end)
        IN  IF At(s, c) # ":" THEN DecodeError("Expecting ':' delimiter", c)
            ELSE
            LET v == scan_once(s, SkipSpace(s, c + 1))
            IN  IF ~v.ok THEN v
                ELSE
                LET ps == PutPair(pairs, key.val.s, v.val)
                    e == SkipSpace(s, v.end)
                IN  IF At(s, e) = "}" THEN Decoded(JObj(ps), e + 1)
                    ELSE IF At(s, e) # ","
                        THEN DecodeError("Expecting ',' delimiter", e)
                    ELSE
                    LET q == SkipSpace(s, e + 1)
                    IN  IF At(s, q) # "\""
                        THEN DecodeError(
                            "Expecting property name enclosed in double quotes", q)
                        ELSE ObjectLoop(s, q + 1, ps)

\* JSONObject; i is the index after the opening brace.
JSONObject(s, i) ==
    LET q == IF At(s, i) = "\"" THEN i ELSE SkipSpace(s, i)
    IN  IF At(s, q) = "}" /\ At(s, i) # "\"" THEN Decoded(JObj(<<>>), q + 1)
        ELSE IF At(s, q) # "\""
            THEN DecodeError(
                "Expecting property name enclosed in double quotes", q)
        ELSE ObjectLoop(s, q + 1, <<>>)

\* JSONArray's loop; i is the index of the next value.
ArrayLoop(s, i, values) ==
    LET v == scan_once(s, i)
    IN  IF ~v.ok THEN v
        ELSE
        LET vs == Append(values, v.val)
            e == SkipSpace(s, v.end)
        IN  IF At(s, e) = "]" THEN Decoded(JArr(vs), e + 1)
            ELSE IF At(s, e) # ","
                THEN DecodeError("Expecting ',' delimiter", e)
            ELSE ArrayLoop(s, SkipSpace(s, e + 1), vs)

\* JSONArray; i is the index after the opening bracket.
JSONArray(s, i) ==
    LET q == SkipSpace(s, i)
    IN  IF At(s, q) = "]" THEN Decoded(JArr(<<>>), q + 1)
        ELSE ArrayLoop(s, q, <<>>)

\* json.scanner's _scan_once; StopIteration surfaces as "Expecting value".
scan_once(s, i) ==
    IF i > Len(s) THEN DecodeError("Expecting value", i)
    ELSE IF s[i] = "\"" THEN scanstring(s, i + 1, i, <<>>)
    ELSE IF s[i] = "{" THEN JSONObject(s, i + 1)
    ELSE IF s[i] = "[" THEN JSONArray(s, i + 1)
    ELSE IF StartsAt(s, i, <<"n", "u", "l", "l">>) THEN Decoded(JNull, i + 4)
    ELSE IF StartsAt(s, i, <<"t", "r", "u", "e">>) THEN Decoded(JTrue, i + 4)
    ELSE IF StartsAt(s, i, <<"f", "a", "l", "s", "e">>) THEN Decoded(JFalse, i + 5)
    ELSE IF s[i] \in Digit THEN ScanNumber(s, i)
    ELSE DecodeError("Expecting value", i)

\* json.loads: JSONDecoder.decode
json_loads(s) ==
    LET r == scan_once(s, SkipSpace(s, 1))
    IN  IF ~r.ok THEN r
        ELSE IF SkipSpace(s, r.end) # Len(s) + 1
            THEN DecodeError("Extra data", SkipSpace(s, r.end))
        ELSE r

\* ------------------------------------------------------------ json.dumps

Quote == <<"\"">>
Newline == <<"\n">>

\* ESCAPE_ASCII of json.encoder (ensure_ascii)
EscapeChar(c) ==
    CASE c = "\"" -> <<"\\", "\"">> [] c = "\\" -> <<"\\", "\\">>
      [] c = "\n" -> <<"\\", "n">> [] c = "\r" -> <<"\\", "r">>
      [] c = "\t" -> <<"\\", "t">>
      [] c = "U00E9" -> <<"\\", "u">> \o HexE9
      [] OTHER -> <<c>>

encode_basestring_ascii(cs) ==
    Quote \o Concat([i \in 1..Len(cs) |-> EscapeChar(cs[i])]) \o Quote

IndentWidth == 2

\* the newline_indent of _make_iterencode at a nesting level
NewlineIndent(level) ==
    Newline \o [i \in 1..(IndentWidth * level) |-> " "]

RECURSIVE iterencode(_, _)
iterencode(v, level) ==
    CASE v.k = "null" -> <<"n", "u", "l", "l">>
      [] v.k = "true" -> <<"t", "r", "u", "e">>
      [] v.k = "false" -> <<"f", "a", "l", "s", "e">>
      [] v.k = "num" -> v.s
      [] v.k = "str" -> encode_basestring_ascii(v.s)
      [] v.k = "list" ->
            IF v.items = <<>> THEN <<"[", "]">>
            ELSE <<"[">> \o NewlineIndent(level + 1)
                 \o Join([i \in 1..Len(v.items) |-> iterencode(v.items[i], level + 1)],
                         <<",">> \o NewlineIndent(level + 1))
                 \o NewlineIndent(level) \o <<"]">>
      [] v.k = "dict" ->
            IF v.items = <<>> THEN <<"{", "}">>
            ELSE <<"{">> \o NewlineIndent(level + 1)
                 \o Join([i \in 1..Len(v.items) |->
                            encode_basestring_ascii(v.items[i].s) \o <<":", " ">>
                            \o iterencode(v.items[i].items[1], level + 1)],
                         <<",">> \o NewlineIndent(level + 1))
                 \o NewlineIndent(level) \o <<"}">>

\* json.dumps(obj, indent=2)
json_dumps(v) ==
    iterencode(v, 0)

\* == of the decoded Python values: dicts compare without regard to order.
RECURSIVE PyEq(_, _)
PyEq(a, b) ==
    /\ a.k = b.k
    /\ a.s = b.s
    /\ Len(a.items) = Len(b.items)
    /\ IF a.k = "dict"
       THEN \A i \in 1..Len(a.items) :
              \E j \in 1..Len(b.items) :
                 /\ a.items[i].s = b.items[j].s
                 /\ PyEq(a.items[i].items[1], b.items[j].items[1])
       ELSE \A i \in 1..Len(a.items) : PyEq(a.items[i], b.items[i])

\* ------------------------------------------------------------ JSON functions

\* lines 13-18
validate_json(content) ==
    json_loads(content).ok

RECURSIVE ReplaceCrLf(_)
\* content.replace('\r\n', '\n')
ReplaceCrLf(s) ==
    IF s = <<>> THEN <<>>
    ELSE IF StartsWith(s, <<"\r", "\n">>) THEN Newline \o ReplaceCrLf(SubSeq(s, 3, Len(s)))
    ELSE <<Head(s)>> \o ReplaceCrLf(Tail(s))

\* (?<=[0-9truefalsenull\"\']) under re.IGNORECASE
CommaLookbehindClass ==
    Digit \cup {"t", "r", "u", "e", "f", "a", "l", "s", "n", "T", "U", "F", "L",
                "S", "N", "\"", "'"}

RECURSIVE NextQuote(_, _)
NextQuote(s, i) ==
    IF i > Len(s) THEN 0 ELSE IF s[i] = "\"" THEN i ELSE NextQuote(s, i + 1)

\* (?=\s*\"[^\"]+\"\s*:) at index i
KeyLookahead(s, i) ==
    LET q == SkipSpace(s, i)
        c == NextQuote(s, q + 1)
    IN  /\ At(s, q) = "\""
        /\ c >= q + 2
        /\ At(s, SkipSpace(s, c + 1)) = ":"

CommaMatchAt(s, i) ==
    i >= 2 /\ s[i - 1] \in CommaLookbehindClass /\ KeyLookahead(s, i)

RECURSIVE CommaSub(_, _)
\* re.sub of lines 25-30 from index i on: a match is the run of white space after
\* a character of the class and before a key; it is replaced by ",\n".
CommaSub(s, i) ==
    IF i > Len(s) THEN <<>>
    ELSE IF CommaMatchAt(s, i)
        THEN <<",", "\n", s[SkipSpace(s, i)]>> \o CommaSub(s, SkipSpace(s, i) + 1)
    ELSE <<s[i]>> \o CommaSub(s, i + 1)

InsertCommas(s) ==
    CommaSub(s, 1)

Returned(text) == [raised |-> FALSE, value |-> text, error |-> <<>>]
Raised(what, e) ==
    [raised |-> TRUE, value |-> <<>>, error |-> <<what, e.msg, e.end - 1>>]

\* a variant without the re-parse of lines 32-35
fix_json_unchecked(content) ==
    Returned(InsertCommas(ReplaceCrLf(remove_unicode_symbols(content))))

\* a variant that returns the content where line 35 raises
fix_json_or_leave(content) ==
    LET r == json_loads(InsertCommas(ReplaceCrLf(remove_unicode_symbols(content))))
    IN  IF ~r.ok THEN Returned(content) ELSE Returned(json_dumps(r.val))

\* lines 20-37
fix_json(content) ==
    LET r == json_loads(InsertCommas(ReplaceCrLf(remove_unicode_symbols(content))))
    IN  IF ~r.ok THEN Raised("Cannot auto-fix JSON: ", r)
        ELSE Returned(json_dumps(r.val))

\* a variant without the isinstance test of line 42
wrap_json_in_array_always(fixed_content) ==
    LET r == json_loads(fixed_content)
    IN  IF r.ok THEN json_dumps(JArr(<<r.val>>)) ELSE fixed_content

\* lines 39-48
wrap_json_in_array(fixed_content) ==
    LET r == json_loads(fixed_content)
    IN  IF ~r.ok THEN fixed_content
        ELSE IF r.val.k # "list" THEN json_dumps(JArr(<<r.val>>))
        ELSE fixed_content

\* ------------------------------------------------------------ YAML functions

RECURSIVE YamlScan(_, _, _, _)
\* yaml.safe_load on block mappings of plain scalars and flow sequences, one
\* "key: value" a line at column 0: the scanner rejects a tab where a token may
\* start, the parser a flow sequence that the stream's end leaves open.
\* atStart: only spaces since the line began.
YamlScan(s, i, atStart, flow) ==
    IF i > Len(s) THEN flow = 0
    ELSE IF s[i] = "\n" THEN YamlScan(s, i + 1, TRUE, flow)
    ELSE IF s[i] = " " THEN YamlScan(s, i + 1, atStart, flow)
    ELSE IF s[i] = "\t" THEN ~atStart /\ YamlScan(s, i + 1, atStart, flow)
    ELSE IF s[i] = "[" THEN YamlScan(s, i + 1, FALSE, flow + 1)
    ELSE IF s[i] = "]" THEN flow > 0 /\ YamlScan(s, i + 1, FALSE, flow - 1)
    ELSE YamlScan(s, i + 1, FALSE, flow)

\* lines 51-56
validate_yaml(content) ==
    YamlScan(content, 1, TRUE, 0)

RECURSIVE SplitFrom(_, _, _)
\* str.splitlines(): i the next index, start the first index of the open line
SplitFrom(s, i, start) ==
    IF i > Len(s)
    THEN IF start <= Len(s) THEN <<SubSeq(s, start, Len(s))>> ELSE <<>>
    ELSE IF s[i] = "\r" /\ At(s, i + 1) = "\n"
        THEN <<SubSeq(s, start, i - 1)>> \o SplitFrom(s, i + 2, i + 2)
    ELSE IF s[i] \in {"\n", "\r"}
        THEN <<SubSeq(s, start, i - 1)>> \o SplitFrom(s, i + 1, i + 1)
    ELSE SplitFrom(s, i + 1, start)

splitlines(s) ==
    SplitFrom(s, 1, 1)

TabToSpaces(c) ==
    IF c = "\t" THEN <<" ", " ", " ", " ">> ELSE <<c>>

\* line.replace('\t', '    ')
ExpandTabs(line) ==
    Concat([i \in 1..Len(line) |-> TabToSpaces(line[i])])

NotBlank(line) ==
    Strip(line) # <<>>

\* lines 58-66
fix_yaml(content) ==
    LET lines == SelectSeq(splitlines(remove_unicode_symbols(content)), NotBlank)
    IN  Join([i \in 1..Len(lines) |-> ExpandTabs(lines[i])], Newline)

\* ------------------------------------------------------------ XML functions

XmlPrefix == <<"<", "?", "x", "m", "l">>

\* '<?xml version="1.0" encoding="UTF-8"?>'
XmlDecl ==
    XmlPrefix \o <<" ", "v", "e", "r", "s", "i", "o", "n", "=", "\"", "1", ".", "0", "\"",
      " ", "e", "n", "c", "o", "d", "i", "n", "g", "=", "\"", "U", "T", "F", "-", "8",
      "\"", "?", ">">>

RECURSIVE WordRun(_, _)
\* the index after the run of \w characters that starts at i
WordRun(s, i) ==
    IF i <= Len(s) /\ s[i] \in Word THEN WordRun(s, i + 1) ELSE i

RECURSIVE XmlWalk(_, _, _, _)
\* The expat parser after the prolog, on elements without attributes and
\* character data: open is the stack of open elements, rooted whether the
\* document element has been seen.
XmlWalk(s, i, open, rooted) ==
    IF i > Len(s) THEN open = <<>> /\ rooted
    ELSE IF s[i] = "<" THEN
        IF At(s, i + 1) = "/" THEN
            LET e == WordRun(s, i + 2)
            IN  /\ e > i + 2
                /\ At(s, e) = ">"
                /\ open # <<>>
                /\ open[Len(open)] = SubSeq(s, i + 2, e - 1)
                /\ XmlWalk(s, e + 1, SubSeq(open, 1, Len(open) - 1), rooted)
        ELSE
            LET e == WordRun(s, i + 1)
            IN  /\ e > i + 1
                /\ s[i + 1] \notin Digit
                /\ At(s, e) = ">"
                /\ ~(open = <<>> /\ rooted)
                /\ XmlWalk(s, e + 1, Append(open, SubSeq(s, i + 1, e - 1)), TRUE)
    ELSE IF open = <<>> THEN s[i] \in Space /\ XmlWalk(s, i + 1, open, rooted)
    ELSE XmlWalk(s, i + 1, open, rooted)

\* ET.fromstring: an XML declaration may only open the document
XmlWellFormed(s) ==
    IF StartsWith(s, XmlDecl) THEN XmlWalk(s, Len(XmlDecl) + 1, <<>>, FALSE)
    ELSE XmlWalk(s, 1, <<>>, FALSE)

\* lines 69-74
validate_xml(content) ==
    XmlWellFormed(content)

\* re.search(r'</\w+>$', text)
EndsWithClosingTag(text) ==
    /\ At(text, Len(text)) = ">"
    /\ \E i \in 1..Len(text) :
         /\ StartsAt(text, i, <<"<", "/">>)
         /\ i + 2 <= Len(text) - 1
         /\ WordRun(text, i + 2) = Len(text)

RECURSIVE FirstTag(_, _)
\* re.search(r'<(\w+)', content): the index of the first match's "<", or 0
FirstTag(s, i) ==
    IF i >= Len(s) THEN 0
    ELSE IF s[i] = "<" /\ s[i + 1] \in Word THEN i
    ELSE FirstTag(s, i + 1)

\* lines 81-85
CloseRoot(content) ==
    LET t == FirstTag(content, 1)
    IN  IF ~EndsWithClosingTag(Strip(content)) /\ t # 0
        THEN content \o Newline \o <<"<", "/">>
             \o SubSeq(content, t + 1, WordRun(content, t + 1) - 1) \o <<">">>
        ELSE content

\* lines 76-87
fix_xml(content) ==
    LET ascii == remove_unicode_symbols(content)
    IN  CloseRoot(IF StartsWith(ascii, XmlPrefix) THEN ascii
                  ELSE XmlDecl \o Newline \o ascii)

\* ------------------------------------------------------------ diff preview

\* a variant that reports no difference only for two empty texts
DiffEmptyOnlyWhenBothEmpty(original, fixed) ==
    splitlines(original) = <<>> /\ splitlines(fixed) = <<>>

\* lines 91-100: unified_diff of the two line lists yields nothing exactly when
\* the lists are equal
DiffEmpty(original, fixed) ==
    splitlines(original) = splitlines(fixed)

\* a variant that takes every answer for a yes
IsYesAlways(answer) ==
    TRUE

\* input().strip().lower() == 'y', lines 107-109, 145-146, 155-156
IsYes(answer) ==
    LowerStr(Strip(answer)) = <<"y">>

\* ------------------------------------------------------------ files

RECURSIVE LastIndexOf(_, _, _)
\* str.rfind, 1-based, 0 when absent
LastIndexOf(s, c, i) ==
    IF i = 0 THEN 0 ELSE IF s[i] = c THEN i ELSE LastIndexOf(s, c, i - 1)

\* os.path.splitext (posixpath): the extension starts at the last dot of the
\* last component, unless only dots precede it there
splitext(p) ==
    LET sep == LastIndexOf(p, "/", Len(p))
        dot == LastIndexOf(p, ".", Len(p))
    IN  IF dot > sep /\ \E f \in (sep + 1)..(dot - 1) : p[f] # "."
        THEN [base |-> SubSeq(p, 1, dot - 1), ext |-> SubSeq(p, dot, Len(p))]
        ELSE [base |-> p, ext |-> <<>>]

RECURSIVE TextRead(_)
\* reading in text mode: universal newlines
TextRead(s) ==
    IF s = <<>> THEN <<>>
    ELSE IF StartsWith(s, <<"\r", "\n">>) THEN Newline \o TextRead(SubSeq(s, 3, Len(s)))
    ELSE IF Head(s) = "\r" THEN Newline \o TextRead(Tail(s))
    ELSE <<Head(s)>> \o TextRead(Tail(s))

RECURSIVE LineEnd(_, _)
LineEnd(s, i) ==
    IF i > Len(s) THEN Len(s) ELSE IF s[i] = "\n" THEN i ELSE LineEnd(s, i + 1)

\* f.readline()
readline(text) ==
    SubSeq(text, 1, LineEnd(text, 1))

Json == <<"j", "s", "o", "n">>
Yaml == <<"y", "a", "m", "l">>
Yml == <<"y", "m", "l">>
Xml == <<"x", "m", "l">>
Dot == <<".">>

KnownExt == {Dot \o Json, Dot \o Yaml, Dot \o Yml, Dot \o Xml}

NotDot(c) ==
    c # "."

\* a variant without the .lower() of line 113
detect_file_type_case_sensitive(file_path, disk) ==
    LET ext == splitext(file_path).ext
        first_line == Strip(readline(TextRead(disk[file_path])))
    IN  IF ext \in KnownExt THEN [tag |-> SelectSeq(ext, NotDot), opened |-> FALSE]
        ELSE [tag |-> IF At(first_line, 1) \in {"{", "["} THEN Json
                      ELSE IF At(first_line, 1) = "<" THEN Xml
                      ELSE Yaml,
              opened |-> TRUE]

\* lines 112-125; opened: whether the file was opened to look at its first line
detect_file_type(file_path, disk) ==
    LET ext == LowerStr(splitext(file_path).ext)
        first_line == Strip(readline(TextRead(disk[file_path])))
    IN  IF ext \in KnownExt THEN [tag |-> SelectSeq(ext, NotDot), opened |-> FALSE]
        ELSE [tag |-> IF StartsWith(first_line, <<"{">>) \/ StartsWith(first_line, <<"[">>)
                      THEN Json
                      ELSE IF StartsWith(first_line, XmlPrefix)
                              \/ StartsWith(first_line, <<"<">>)
                      THEN Xml
                      ELSE Yaml,
              opened |-> TRUE]

Suffix == <<"_", "f", "i", "x", "e", "d">>

\* a variant that forgets the suffix
fixed_path_same(original_path) ==
    original_path

\* lines 128-129
fixed_path(original_path) ==
    splitext(original_path).base \o Suffix \o splitext(original_path).ext

\* lines 130-131: open(fixed_path, 'w') creates or truncates
WriteFile(disk, path, text) ==
    [q \in DOMAIN disk \cup {path} |-> IF q = path THEN text ELSE disk[q]]

\* ------------------------------------------------------------ inputs

\* nesting depth of the generated JSON values
MaxDepth == 1
\* number of tokens of a generated XML body
MaxXmlTokens == 4
\* number of lines of a generated YAML document
MaxYamlLines == 3

\* 1, "x", true, null and a string holding the non-ASCII character
JsonScalars ==
    {
        <<"1">>,
        <<"\"", "x", "\"">>,
        <<"t", "r", "u", "e">>,
        <<"n", "u", "l", "l">>,
        <<"\"", "U00E9", "\"">>
    }

RECURSIVE JsonValues(_)
\* the scalars, and up to depth d: [v], {"k": v} and []
JsonValues(d) ==
    IF d = 0 THEN JsonScalars
    ELSE LET inner == JsonValues(d - 1)
         IN  inner \cup {<<"[", "]">>}
             \cup {<<"[">> \o v \o <<"]">> : v \in inner}
             \cup {<<"{", "\"", "k", "\"", ":", " ">> \o v \o <<"}">> : v \in inner}

\* between two members: a comma, or one of the ways a comma goes missing
Gaps ==
    {
        <<",", " ">>,
        <<" ">>,
        <<>>,
        <<"\n">>
    }

SecondKeys ==
    {
        <<"\"", "b", "\"">>,
        <<"\"", "n", "\"">>
    }

SecondValues ==
    {
        <<"2">>,
        <<"\"", ":", "x", "\"">>
    }

\* {"a": V G K: W}: an object of two members, the comma between them present
\* or missing
JsonPairs ==
    {<<"{", "\"", "a", "\"", ":", " ">> \o v \o g \o k \o <<":", " ">> \o w \o <<"}">> :
        v \in JsonValues(MaxDepth), g \in Gaps, k \in SecondKeys, w \in SecondValues}

BrokenJson ==
    {
        <<>>,
        <<"[", "1">>,
        <<"[", "1", " ", "2", "]">>,
        <<"{", "\"", "a", "\"", " ", "1", "}">>,
        <<"{", "\"", "a", "\"", ":", " ", "1", ",", "}">>,
        <<"0", "1">>,
        <<"{", "\"", "a", "\"", ":", " ", "1", "}", "x">>,
        <<"{", "\"", "a", "\"", ":", " ", "1", ",", "\r", "\n", "\"", "a", "\"", ":", " ", "2", "}">>
    }

JsonContents ==
    JsonValues(MaxDepth) \cup JsonPairs \cup BrokenJson

XmlTokens ==
    {
        <<"<", "r", "o", "o", "t", ">">>,
        <<"<", "/", "r", "o", "o", "t", ">">>,
        <<"<", "c", "h", "i", "l", "d", ">">>,
        <<"<", "/", "c", "h", "i", "l", "d", ">">>,
        <<"t", "e", "x", "t">>,
        <<"U00E9", "\n">>
    }

RECURSIVE TokenTexts(_, _)
\* the concatenations of at most n tokens
TokenTexts(tokens, n) ==
    IF n = 0 THEN {<<>>}
    ELSE LET shorter == TokenTexts(tokens, n - 1)
         IN  shorter \cup {s \o tk : s \in shorter, tk \in tokens}

XmlContents ==
    TokenTexts(XmlTokens, MaxXmlTokens)
    \cup {XmlDecl \o Newline \o b : b \in TokenTexts(XmlTokens, MaxXmlTokens - 1)}

YamlLines ==
    {
        <<"a", ":", " ", "1">>,
        <<"\t", "a", ":", " ", "1">>,
        <<"b", ":", " ", "[">>,
        <<"c", ":", " ", "[", "]">>,
        <<>>,
        <<"a", ":", " ", "U00E9">>
    }

RECURSIVE LineTexts(_)
\* the documents of at most n lines
LineTexts(n) ==
    IF n = 0 THEN {<<>>}
    ELSE LET shorter == LineTexts(n - 1)
         IN  shorter \cup YamlLines \cup {s \o Newline \o l : s \in shorter \ {<<>>}, l \in YamlLines}

YamlContents ==
    LineTexts(MaxYamlLines)

\* contents of every format, to be met under every path
Mixed ==
    {
        <<"{", "\"", "a", "\"", ":", " ", "1", "}">>,
        <<"{", "\"", "a", "\"", ":", " ", "1", " ", "\"", "b", "\"", ":", " ", "2", "}">>,
        <<" ", "[", "1", "]">>,
        <<"{", "\"", "a", "\"", ":", " ", "1", ",", "\r", "\n", "\"", "b", "\"", ":", " ", "\"", "U00E9", "\"", "}">>,
        <<"{", "\"", "a", "\"", ":", " ", "[", "1", "]", " ", "\"", "b", "\"", ":", " ", "2", "}">>,
        <<"<", "r", "o", "o", "t", ">", "t", "e", "x", "t", "<", "/", "r", "o", "o", "t", ">">>,
        <<"<", "r", "o", "o", "t", ">", "<", "c", "h", "i", "l", "d", ">", "t", "e", "x", "t", "<", "/", "c", "h", "i", "l", "d", ">">>,
        <<"\n", "<", "r", "o", "o", "t", ">", "<", "/", "r", "o", "o", "t", ">">>,
        <<"<", "?", "x", "m", "l", " ", "v", "e", "r", "s", "i", "o", "n", "=", "\"", "1", ".", "0", "\"", " ", "e", "n", "c", "o", "d", "i", "n", "g", "=", "\"", "U", "T", "F", "-", "8", "\"", "?", ">", "\n", "<", "r", "o", "o", "t", ">", "<", "/", "r", "o", "o", "t", ">">>,
        <<"<", "?", "x", "m", "l", " ", "v", "e", "r", "s", "i", "o", "n", "=", "\"", "1", ".", "0", "\"", " ", "e", "n", "c", "o", "d", "i", "n", "g", "=", "\"", "U", "T", "F", "-", "8", "\"", "?", ">", "<", "a", ">", "<", "/", "b", ">">>,
        <<"a", ":", " ", "1">>,
        <<"\t", "a", ":", " ", "1">>,
        <<"b", ":", " ", "[">>,
        <<"b", ":", " ", "[", "\n">>,
        <<>>
    }

Dirs ==
    {
        <<>>,
        <<"d", ".", "x", "m", "l", "/">>
    }

Stems ==
    {
        <<"s", "a", "m", "p", "l", "e">>,
        <<>>,
        <<"a", ".", "b">>
    }

Exts ==
    {
        <<>>,
        <<".", "j", "s", "o", "n">>,
        <<".", "J", "S", "O", "N">>,
        <<".", "y", "a", "m", "l">>,
        <<".", "y", "m", "l">>,
        <<".", "Y", "m", "l">>,
        <<".", "x", "m", "l">>,
        <<".", "t", "x", "t">>
    }

Paths ==
    {d \o st \o e : d \in Dirs, st \in Stems, e \in Exts} \ ({<<>>} \cup Dirs)

SamplePath(tag) ==
    <<"s", "a", "m", "p", "l", "e", ".">> \o tag

\* what the user types at a prompt
Answers ==
    {
        <<"y">>,
        <<"n">>,
        <<" ", "Y", "\n">>,
        <<>>,
        <<"y", "e", "s">>
    }

OldText == <<"o", "l", "d">>

\* The runs: every path with every mixed content, and one path of each format
\* with that format's generated contents.  there: whether the typed path names
\* a file; stale: whether the "_fixed" file exists already; padded: whether the
\* path is typed with white space around it.
Inputs ==
    [path : Paths, text : Mixed, there : BOOLEAN, stale : BOOLEAN, padded : BOOLEAN]
    \cup [path : {SamplePath(Json)}, text : JsonContents, there : {TRUE},
          stale : {FALSE}, padded : {FALSE}]
    \cup [path : {SamplePath(Xml)}, text : XmlContents, there : {TRUE},
          stale : {FALSE}, padded : {FALSE}]
    \cup [path : {SamplePath(Yaml)}, text : YamlContents, there : {TRUE},
          stale : {FALSE}, padded : {FALSE}]

\* yaml.safe_load is modelled on the documents of YamlContents only: a run that
\* dispatches to YAML starts from one of them.
Modelled(in) ==
    (in.there /\ detect_file_type(in.path, (in.path :> in.text)).tag \in {Yaml, Yml})
        => TextRead(in.text) \in YamlContents

\* ------------------------------------------------------------ the run

VARIABLES
    pc,         \* where the run stands
    typed,      \* the line typed at the path prompt
    file_path,
    disk,       \* the files: path -> text
    disk0,      \* the files when the run began
    content,
    file_type,
    valid,      \* the validator's verdict
    fixed,
    error,      \* the exception that ended the run, <<>> if none
    log,        \* what the run did, in order
    answers,    \* the lines read by input() after the path, in order
    written,    \* the calls of save_fixed_file: [path, text]
    once,       \* wrap_json_in_array(content), when applied on its own
    twice       \* wrap_json_in_array(once)

vars == <<pc, typed, file_path, disk, disk0, content, file_type, valid, fixed,
          error, log, answers, written, once, twice>>

Init ==
    \E in \in Inputs :
        /\ Modelled(in)
        /\ pc = "main"
        /\ typed = IF in.padded THEN <<" ">> \o in.path \o <<" ">> ELSE in.path
        /\ file_path = <<>>
        /\ disk = [q \in (IF in.there THEN {in.path} ELSE {})
                         \cup (IF in.stale THEN {fixed_path(in.path)} ELSE {}) |->
                    IF q = in.path /\ in.there THEN in.text ELSE OldText]
        /\ disk0 = disk
        /\ content = <<>>
        /\ file_type = <<>>
        /\ valid = FALSE
        /\ fixed = <<>>
        /\ error = <<>>
        /\ log = <<>>
        /\ answers = <<>>
        /\ written = <<>>
        /\ once = <<>>
        /\ twice = <<>>

\* lines 190-196
Main ==
    /\ pc = "main"
    /\ file_path' = Strip(typed)
    /\ IF Strip(typed) \in DOMAIN disk
       THEN pc' = "open" /\ log' = log
       ELSE pc' = "done" /\ log' = Append(log, "not found")
    /\ UNCHANGED <<typed, disk, disk0, content, file_type, valid, fixed, error,
                   answers, written, once, twice>>

\* lines 135-138
ReadAndDetect ==
    /\ pc = "open"
    /\ content' = TextRead(disk[file_path])
    /\ file_type' = detect_file_type(file_path, disk).tag
    /\ log' = log \o <<"read">>
              \o (IF detect_file_type(file_path, disk).opened THEN <<"readline">> ELSE <<>>)
    /\ pc' = "validate"
    /\ UNCHANGED <<typed, file_path, disk, disk0, valid, fixed, error, answers,
                   written, once, twice>>

IsJson(type) == type = Json
IsYaml(type) == type \in {Yaml, Yml}
IsXml(type) == type = Xml

\* a variant that fixes whatever the verdict
AfterValidateAlwaysFix(type, ok) ==
    IF IsJson(type) \/ IsYaml(type) \/ IsXml(type) THEN "fix" ELSE "done"

\* lines 140-187: where a verdict leads
AfterValidate(type, ok) ==
    IF IsJson(type) THEN (IF ok THEN "wrap_prompt" ELSE "fix")
    ELSE IF IsYaml(type) \/ IsXml(type) THEN (IF ok THEN "done" ELSE "fix")
    ELSE "done"

\* lines 142, 164, 176
Verdict(type, text) ==
    IF IsJson(type) THEN validate_json(text)
    ELSE IF IsYaml(type) THEN validate_yaml(text)
    ELSE IF IsXml(type) THEN validate_xml(text)
    ELSE FALSE

\* lines 140-143, 162-165, 174-177, 186-187
Validate ==
    /\ pc = "validate"
    /\ valid' = Verdict(file_type, content)
    /\ pc' = AfterValidate(file_type, valid')
    /\ log' = Append(log, "validate")
    /\ UNCHANGED <<typed, file_path, disk, disk0, content, file_type, fixed, error,
                   answers, written, once, twice>>

\* lines 153, 168, 180
Fixer(type, text) ==
    IF IsJson(type) THEN fix_json(text)
    ELSE IF IsYaml(type) THEN Returned(fix_yaml(text))
    ELSE Returned(fix_xml(text))

\* lines 152-153, 167-168, 179-180: an exception of the fixer ends the run
Fix ==
    /\ pc = "fix"
    /\ LET r == Fixer(file_type, content)
       IN  /\ fixed' = r.value
           /\ error' = r.error
           /\ pc' = IF r.raised THEN "aborted" ELSE "preview"
    /\ log' = Append(log, "fix")
    /\ UNCHANGED <<typed, file_path, disk, disk0, content, file_type, valid, answers,
                   written, once, twice>>

\* lines 91-106
Preview ==
    /\ pc = "preview"
    /\ IF DiffEmpty(content, fixed)
       THEN pc' = "done" /\ log' = Append(log, "no differences")
       ELSE pc' = "confirm" /\ log' = Append(log, "diff")
    /\ UNCHANGED <<typed, file_path, disk, disk0, content, file_type, valid, fixed,
                   error, answers, written, once, twice>>

\* lines 107-109, 154, 160, 169-172, 181-184
Confirm ==
    /\ pc = "confirm"
    /\ \E answer \in Answers :
        /\ answers' = Append(answers, answer)
        /\ pc' = IF ~IsYes(answer) THEN "done"
                 ELSE IF IsJson(file_type) THEN "wrap_prompt" ELSE "save"
    /\ log' = Append(log, "save?")
    /\ UNCHANGED <<typed, file_path, disk, disk0, content, file_type, valid, fixed,
                   error, written, once, twice>>

\* lines 145-150 (valid JSON) and 155-157 (fixed JSON)
WrapPrompt ==
    /\ pc = "wrap_prompt"
    /\ \E answer \in Answers :
        /\ answers' = Append(answers, answer)
        /\ fixed' = IF ~IsYes(answer) THEN fixed
                    ELSE wrap_json_in_array(IF valid THEN content ELSE fixed)
        /\ pc' = IF valid /\ ~IsYes(answer) THEN "done" ELSE "save"
    /\ log' = Append(log, "wrap?")
    /\ UNCHANGED <<typed, file_path, disk, disk0, content, file_type, valid, error,
                   written, once, twice>>

\* lines 127-132
save_fixed_file ==
    /\ pc = "save"
    /\ disk' = WriteFile(disk, fixed_path(file_path), fixed)
    /\ written' = Append(written, [path |-> fixed_path(file_path), text |-> fixed])
    /\ log' = Append(log, "save")
    /\ pc' = "done"
    /\ UNCHANGED <<typed, file_path, disk0, content, file_type, valid, fixed, error,
                   answers, once, twice>>

Next ==
    \/ Main
    \/ ReadAndDetect
    \/ Validate
    \/ Fix
    \/ Preview
    \/ Confirm
    \/ WrapPrompt
    \/ save_fixed_file

Spec == Init /\ [][Next]_vars

\* ------------------------------------------------------------ wrap_json_in_array alone

\* wrap_json_in_array on every generated text, parseable or not, and again on
\* its own result
InitWrap ==
    /\ content \in JsonContents \cup XmlContents \cup Mixed
    /\ pc = "wrap"
    /\ typed = <<>>
    /\ file_path = <<>>
    /\ disk = <<>>
    /\ disk0 = <<>>
    /\ file_type = <<>>
    /\ valid = FALSE
    /\ fixed = <<>>
    /\ error = <<>>
    /\ log = <<>>
    /\ answers = <<>>
    /\ written = <<>>
    /\ once = <<>>
    /\ twice = <<>>

WrapOnce ==
    /\ pc = "wrap"
    /\ once' = wrap_json_in_array(content)
    /\ pc' = "wrapped"
    /\ UNCHANGED <<typed, file_path, disk, disk0, content, file_type, valid, fixed,
                   error, log, answers, written, twice>>

WrapTwice ==
    /\ pc = "wrapped"
    /\ twice' = wrap_json_in_array(once)
    /\ pc' = "rewrapped"
    /\ UNCHANGED <<typed, file_path, disk, disk0, content, file_type, valid, fixed,
                   error, log, answers, written, once>>

NextWrap ==
    \/ WrapOnce
    \/ WrapTwice

SpecWrap == InitWrap /\ [][NextWrap]_vars

\* ------------------------------------------------------------ claims

Has(events, e) ==
    \E i \in 1..Len(events) : events[i] = e

Count(events, e) ==
    Cardinality({i \in 1..Len(events) : events[i] = e})

\* the answers of Answers that are 'y' once stripped and lower-cased
SaidY == {<<"y">>, <<" ", "Y", "\n">>}

\* the answer given at the i-th prompt of the kind, if the log has one
AnswerAt(kind) ==
    {answers[Cardinality({j \in 1..i : log[j] \in {"save?", "wrap?"}})] :
        i \in {i \in 1..Len(log) : log[i] = kind}}

\* C1: save_fixed_file is called at most once in a run, and only after a 'y':
\* to the diff confirmation when the content was invalid, to the wrap prompt
\* when the JSON was valid; a run with no 'y' among its answers writes nothing.
C1_SaveOnceAfterYes ==
    /\ Len(written) <= 1
    /\ Count(log, "save") = Len(written)
    /\ (written # <<>> \/ pc = "save") =>
          IF valid THEN AnswerAt("wrap?") \subseteq SaidY /\ AnswerAt("wrap?") # {}
          ELSE AnswerAt("save?") \subseteq SaidY /\ AnswerAt("save?") # {}
    /\ (\A i \in 1..Len(answers) : answers[i] \notin SaidY) =>
          (written = <<>> /\ disk = disk0 /\ pc # "save")

C1_Witness ==
    /\ pc = "done"
    /\ Len(written) = 1
    /\ ~valid
    /\ Len(answers) = 2
    /\ answers[2] \notin SaidY

\* C2 (as claimed): for XML whose root lacks only its final closing tag, fix_xml
\* returns text that begins with an XML declaration and ends with the closing
\* tag of the first opening tag.
RootName(text) ==
    SubSeq(text, FirstTag(text, 1) + 1, WordRun(text, FirstTag(text, 1) + 1) - 1)

RootClose(text) ==
    <<"<", "/">> \o RootName(text) \o <<">">>

MissingOnlyFinalClose(text) ==
    /\ FirstTag(text, 1) # 0
    /\ ~validate_xml(text)
    /\ validate_xml(text \o RootClose(text))

C2_FixXmlClosesRoot ==
    (pc = "preview" /\ IsXml(file_type) /\ MissingOnlyFinalClose(content)) =>
        /\ StartsWith(fixed, XmlDecl)
        /\ EndsWith(fixed, RootClose(content))

\* C3 (as claimed): for an object text missing exactly one comma between two
\* members, whatever the value before the gap, fix_json returns, its result
\* parses, and the value equals that of the text with the comma put in by hand.
Pair(v, g, k, w) ==
    <<"{", "\"", "a", "\"", ":", " ">> \o v \o g \o k \o <<":", " ">> \o w \o <<"}">>

Comma == <<",", " ">>

C3_FixJsonInsertsTheComma ==
    (IsJson(file_type) /\ pc \in {"preview", "aborted"}) =>
        \A v \in JsonValues(MaxDepth), g \in Gaps \ {Comma}, k \in SecondKeys,
           w \in SecondValues :
            content = Pair(v, g, k, w) =>
                /\ pc = "preview"
                /\ json_loads(fixed).ok
                /\ PyEq(json_loads(fixed).val, json_loads(Pair(v, Comma, k, w)).val)

\* C4: when the validator of the detected format accepts the content, no fixer
\* is invoked; and for YAML and XML the run ends with no prompt and no file
\* written.
C4_ValidMeansNoFix ==
    (Has(log, "validate") /\ valid) =>
        /\ ~Has(log, "fix")
        /\ pc # "fix"
        /\ fixed = <<>> \/ IsJson(file_type)
        /\ (IsYaml(file_type) \/ IsXml(file_type)) =>
              /\ pc = "done"
              /\ answers = <<>>
              /\ written = <<>>
              /\ disk = disk0
              /\ log[Len(log)] = "validate"

C4_Witness ==
    /\ pc = "done"
    /\ valid
    /\ IsYaml(file_type)
    /\ content # <<>>

\* C5: when the fixer's output equals the original content, the preview returns
\* False without reading input and the run writes no file.
C5_EqualOutputNoSave ==
    (Has(log, "fix") /\ pc \notin {"preview", "aborted"} /\ fixed = content) =>
        /\ pc = "done"
        /\ log[Len(log)] = "no differences"
        /\ answers = <<>>
        /\ written = <<>>
        /\ disk = disk0

C5_Witness ==
    /\ pc = "done"
    /\ Has(log, "fix")
    /\ fixed = content
    /\ content # <<>>

\* C6: wrap_json_in_array returns a text whose top-level value is a list
\* unchanged; for a scalar or an object it returns the serialization of the
\* one-element list holding that value; wrapping twice is wrapping once; a text
\* that does not parse comes back unchanged.
C6_WrapIdempotentSafe ==
    (pc \in {"wrapped", "rewrapped"}) =>
        LET r == json_loads(content)
        IN  /\ ~r.ok => once = content
            /\ (r.ok /\ r.val.k = "list") => once = content
            /\ (r.ok /\ r.val.k # "list") =>
                  /\ once = json_dumps(JArr(<<r.val>>))
                  /\ json_loads(once).ok
                  /\ json_loads(once).val.k = "list"
                  /\ Len(json_loads(once).val.items) = 1
                  /\ PyEq(json_loads(once).val.items[1], r.val)
            /\ pc = "rewrapped" => twice = once

C6_Witness ==
    /\ pc = "rewrapped"
    /\ json_loads(content).ok
    /\ json_loads(content).val.k = "list"
    /\ json_loads(content).val.items # <<>>
    /\ twice = content

FirstChar(text) ==
    At(Strip(readline(text)), 1)

C8_SavesBesideSource ==
    /\ \A i \in 1..Len(written) :
          /\ written[i].path =
                splitext(file_path).base \o Suffix \o splitext(file_path).ext
          /\ written[i].path # file_path
          /\ Len(written[i].path) = Len(file_path) + Len(Suffix)
          /\ file_path = SamplePath(Json) =>
                written[i].path = <<"s", "a", "m", "p", "l", "e">> \o Suffix \o Dot \o Json
          /\ written[i].path \in DOMAIN disk
          /\ disk[written[i].path] = written[i].text
    /\ \A q \in DOMAIN disk0 :
          (written = <<>> \/ q # written[1].path) =>
              (q \in DOMAIN disk /\ disk[q] = disk0[q])
    /\ pc \notin {"main"} /\ file_path \in DOMAIN disk0 =>
          (file_path \in DOMAIN disk /\ disk[file_path] = disk0[file_path])

C8_Witness ==
    /\ pc = "done"
    /\ written # <<>>
    /\ written[1].path \in DOMAIN disk0
    /\ disk0[written[1].path] = OldText
    /\ disk[written[1].path] # OldText
    /\ splitext(file_path).ext # <<>>

\* C9: when the content is invalid JSON and the text with the commas inserted
\* still does not parse, fix_json raises the cannot-auto-fix error with the
\* parser's message, and the run ends there: no diff, no prompt, no retry, no
\* file written.
Transformed(text) ==
    InsertCommas(ReplaceCrLf(remove_unicode_symbols(text)))

C9_UnfixableHalts ==
    /\ (IsJson(file_type) /\ Has(log, "fix") /\ ~json_loads(Transformed(content)).ok) =>
          pc = "aborted"
    /\ pc = "aborted" =>
          /\ IsJson(file_type)
          /\ ~valid
          /\ error = <<"Cannot auto-fix JSON: ", json_loads(Transformed(content)).msg,
                       json_loads(Transformed(content)).end - 1>>
          /\ log = <<"read", "validate", "fix">> \/ log = <<"read", "readline", "validate", "fix">>
          /\ answers = <<>>
          /\ written = <<>>
          /\ disk = disk0
          /\ ~ENABLED Next

C9_Witness ==
    /\ pc = "aborted"
    /\ Transformed(content) # content

\* C10: on the JSON path every text passed to save_fixed_file is accepted by
\* validate_json, with or without the wrap, whatever the answers.
C10_SavedJsonIsValid ==
    IsJson(file_type) =>
        /\ \A i \in 1..Len(written) : validate_json(written[i].text)
        /\ pc = "save" => validate_json(fixed)

C10_Witness ==
    /\ IsJson(file_type)
    /\ ~valid
    /\ written # <<>>
    /\ answers[2] \in SaidY
    /\ written[1].text[1] = "["

\* C10, its other half: the YAML and XML paths write the fixer's output without
\* validating it again; this state, a saved XML text that validate_xml
\* rejects, is reachable.
SavedXmlIsInvalid ==
    /\ IsXml(file_type)
    /\ written # <<>>
    /\ ~validate_xml(written[1].text)

SavedXmlIsNeverInvalid ==
    ~SavedXmlIsInvalid

====
